---------------------------- MODULE Spec2Model ----------------------------
(***************************************************************************)
(* Model of the dialect recorder (src/app.py): the sentence selector, the  *)
(* ledger update on the two worksheets of "Dialect_Database" and the       *)
(* per-session submit handler, the progress bar of the page and the store  *)
(* calls that fail.  Every gspread / Hugging Face call is one step of the  *)
(* session that makes it; sessions interleave between calls.               *)
(*                                                                         *)
(* A worksheet is a sequence of data rows, a row a sequence of cell texts. *)
(* Row numbers count data rows (the header row is left out; no query of    *)
(* the model equals a header text).                                        *)
(***************************************************************************)
EXTENDS Integers, Sequences, FiniteSets, TLC

(* ------------------------------ bounds -------------------------------- *)
\* submissions one session may complete
MaxAdds == 2
\* data rows of a seeded sentence sheet in SelectorSpec and LedgerSpec
MaxRows == 2
\* sentences, and recordings, of the end-to-end scenario
ScenarioSize == 3
\* largest stored count of a volunteer in ProgressSpec
MaxTotal == 250
\* store calls that may fail in one run of FaultSpec
MaxFaults == 1

(* ----------------------- cell texts and numbers ----------------------- *)
\* decimal texts of the numbers the model can reach
NumStr == <<"0", "1", "2", "3", "4", "5", "6", "7", "8", "9", "10", "11", "12">>

\* str(n) of a counter
StrOf(n) == NumStr[n + 1]

\* int(text) succeeds
IsNumeric(t) == \E i \in 1..Len(NumStr) : NumStr[i] = t

\* int(text); a ValueError of the code is the case ~IsNumeric(t)
IntOf(t) == (CHOOSE i \in 1..Len(NumStr) : NumStr[i] = t) - 1

\* str(datetime.now()) at logical time n: never the text of a number or id
TsStr == <<"T1", "T2", "T3", "T4", "T5", "T6", "T7", "T8", "T9", "T10", "T11", "T12">>
Stamp(n) == TsStr[n]

(* ------------------------------- state -------------------------------- *)
Sessions == {"s1", "s2"}

VARIABLES
    sheet1,          \* Sheet1 data rows
    users,           \* User_Stats data rows
    now,             \* logical clock of datetime.now()
    live,            \* the sessions that are connected
    params,          \* per session: the URL parameters region and user
    pc,              \* per session: position in the script
    current_data,    \* st.session_state.current_data
    user_db_count,   \* st.session_state.user_db_count
    session_adds,    \* st.session_state.session_adds
    local,           \* per session: locals of the running handler
    msg,             \* per session: what the page last reported
    sheet0,          \* history: Sheet1 as seeded
    users0,          \* history: User_Stats at the start
    calls,           \* history: per global_id, ledger calls past line 95
    overlapped,      \* history: two submit handlers once ran at a time
    cap,             \* submissions a session of this run may complete
    header,          \* Sheet1 row 1: the column names, in sheet order
    page,            \* per session: the progress bar as last drawn
    fault            \* history: the store calls that failed

vars == <<sheet1, users, now, live, params, pc, current_data, user_db_count,
          session_adds, local, msg, sheet0, users0, calls, overlapped,
          cap, header, page, fault>>

(* --------------------------- sheet layout ----------------------------- *)
\* Sheet1: the column names get_next_sentence and the page read, in an
\* order that puts recording_count in column F (6) as the ledger assumes
SHEET1_HEADER ==
    <<"region", "sentence_text", "global_id", "split", "dataset_source",
      "recording_count", "target_count">>

\* Sheet1 with the columns in the order of the tabular schema of the
\* specification (its `id` is the column the code calls global_id)
SCHEMA_HEADER ==
    <<"region", "sentence_text", "global_id", "recording_count",
      "target_count", "split", "dataset_source">>

\* position of a named column (get_all_records keys a row by the header)
Col(name) == CHOOSE c \in 1..Len(header) : header[c] = name

\* the column update_global_and_user_stats addresses in Sheet1
RECORDING_COUNT_COL == 6
\* the columns it addresses in User_Stats
USER_COUNT_COL == 2
USER_STAMP_COL == 3

\* minimum size of an accepted recording
MIN_AUDIO_BYTES == 5000

\* a seeded sentence row of a sheet whose row 1 is hdr
RowIn(hdr, region, id, split, rc, tc) ==
    [c \in 1..Len(hdr) |->
        CASE hdr[c] = "region" -> region
          [] hdr[c] = "global_id" -> id
          [] hdr[c] = "split" -> split
          [] hdr[c] = "recording_count" -> rc
          [] hdr[c] = "target_count" -> tc
          [] hdr[c] = "dataset_source" -> "Vashantor"
          [] OTHER -> "s"]

\* a seeded sentence row of the sheet the ledger assumes
Row(region, id, split, rc, tc) ==
    RowIn(SHEET1_HEADER, region, id, split, rc, tc)

\* `None`
None == <<>>

(* ------------------------- gspread primitives ------------------------- *)
\* worksheet.find(query): the row of the first cell, in row-major order,
\* whose text equals the query; 0 when no cell matches (find returns None
\* and `.row` raises)
FindCell(sheet, query) ==
    LET hits == {r \in 1..Len(sheet) :
                    \E c \in 1..Len(sheet[r]) : sheet[r][c] = query}
    IN IF hits = {} THEN 0
       ELSE CHOOSE r \in hits : \A q \in hits : r <= q

\* worksheet.update_cell(row, col, value)
UpdateCell(sheet, r, c, value) ==
    [sheet EXCEPT ![r] = [@ EXCEPT ![c] = value]]

(* ------------------------------ selector ------------------------------ *)
\* pending_mask of one row
IsPending(row) ==
    IntOf(row[Col("recording_count")]) < IntOf(row[Col("target_count")])

\* the partition without region_mask
AvailableAnyRegion(data, region, split) ==
    {i \in 1..Len(data) :
        /\ IsPending(data[i])
        /\ data[i][Col("split")] = split}

\* df[region_mask & pending_mask & (split == s)]
Available(data, region, split) ==
    {i \in 1..Len(data) :
        /\ data[i][Col("region")] = region
        /\ IsPending(data[i])
        /\ data[i][Col("split")] = split}

\* df['region'] on the frame of an empty record list raises KeyError
SelectorRaises(data) == data = <<>>

\* get_next_sentence without the split priority: any pending test or train
\* row of the region
get_next_sentence_unordered(data, region) ==
    LET any == Available(data, region, "test")
                  \cup Available(data, region, "train")
    IN IF any # {} THEN {data[i] : i \in any} ELSE {None}

\* the values get_next_sentence(region) can return on a snapshot
\* (sample(1) picks any row of the partition)
get_next_sentence(data, region) ==
    IF Available(data, region, "test") # {}
    THEN {data[i] : i \in Available(data, region, "test")}
    ELSE IF Available(data, region, "train") # {}
         THEN {data[i] : i \in Available(data, region, "train")}
         ELSE {None}

NoLocal == [nbytes |-> 0, success |-> FALSE, cell_s |-> 0, current_s_val |-> 0,
            cell_u |-> 0, current_u_val |-> 0]

\* positions inside update_global_and_user_stats
LedgerPcs == {"find_s", "read_s", "write_s", "find_u", "read_u", "write_u",
              "stamp_u", "append_u"}
\* positions inside the submit handler
HandlerPcs == {"upload"} \cup LedgerPcs \cup {"next"}


\* the arguments the page passes on: str(row['global_id']) and the user
current_id(s) == current_data[s][Col("global_id")]
user_id(s) == params[s].user

\* another session is inside its submit handler
OtherInHandler(s) == \E o \in live \ {s} : pc[o] \in HandlerPcs

(* ------------------------- session start (150-162) -------------------- *)
\* lines 151-154: the first assignment; an empty record list raises and
\* leaves current_data unset, so the next run of the script tries again
LoadAssignment(s) ==
    /\ pc[s] = "new"
    /\ IF SelectorRaises(sheet1)
       THEN /\ msg' = [msg EXCEPT ![s] = "exception"]
            /\ UNCHANGED <<pc, current_data>>
       ELSE /\ \E row \in get_next_sentence(sheet1, params[s].region) :
                  current_data' = [current_data EXCEPT ![s] = row]
            /\ pc' = [pc EXCEPT ![s] = "stats"]
            /\ UNCHANGED msg
    /\ UNCHANGED <<sheet1, users, now, live, params, user_db_count,
                   session_adds, local, sheet0, users0, calls, overlapped,
                   cap, header, page, fault>>

\* get_user_stats, line 76: find; not found is caught and returns 0, and
\* lines 158-159 store it with session_adds = 0
StatsFind(s) ==
    /\ pc[s] = "stats"
    /\ LET r == FindCell(users, user_id(s)) IN
       IF r = 0
       THEN /\ user_db_count' = [user_db_count EXCEPT ![s] = 0]
            /\ session_adds' = [session_adds EXCEPT ![s] = 0]
            /\ pc' = [pc EXCEPT ![s] = "idle"]
            /\ UNCHANGED local
       ELSE /\ local' = [local EXCEPT ![s].cell_u = r]
            /\ pc' = [pc EXCEPT ![s] = "stats_read"]
            /\ UNCHANGED <<user_db_count, session_adds>>
    /\ UNCHANGED <<sheet1, users, now, live, params, current_data, msg,
                   sheet0, users0, calls, overlapped,
                   cap, header, page, fault>>

\* get_user_stats, line 78: int(cell(row, 2)); a ValueError returns 0;
\* lines 158-159 store the result with session_adds = 0
StatsRead(s) ==
    /\ pc[s] = "stats_read"
    /\ LET v == users[local[s].cell_u][USER_COUNT_COL] IN
       user_db_count' = [user_db_count EXCEPT
                            ![s] = IF IsNumeric(v) THEN IntOf(v) ELSE 0]
    /\ session_adds' = [session_adds EXCEPT ![s] = 0]
    /\ local' = [local EXCEPT ![s] = NoLocal]
    /\ pc' = [pc EXCEPT ![s] = "idle"]
    /\ UNCHANGED <<sheet1, users, now, live, params, current_data,
                   msg, sheet0, users0, calls, overlapped,
                   cap, header, page, fault>>

(* ------------------------ progress bar (162-183) ---------------------- *)
\* the step between two milestones
MILESTONE_STEP == 100

\* min(a, b)
Min(a, b) == IF a <= b THEN a ELSE b

\* line 162
total_user_score(s) == user_db_count[s] + session_adds[s]

\* line 177
next_milestone(total) == MILESTONE_STEP * ((total \div MILESTONE_STEP) + 1)

\* the bar without lines 179-180: a total on a milestone draws an empty bar
progress_percent_plain(total) == Min(100, total % MILESTONE_STEP)

\* lines 178-180, in hundredths of the bar
progress_percent(total) ==
    IF total > 0 /\ total % MILESTONE_STEP = 0
    THEN 100
    ELSE Min(100, total % MILESTONE_STEP)

\* lines 168-183: the page of a session that holds a sentence draws the bar
Render(s) ==
    /\ pc[s] = "idle"
    /\ current_data[s] # None
    /\ page' = [page EXCEPT ![s] =
                    [total |-> total_user_score(s),
                     percent |-> progress_percent(total_user_score(s)),
                     milestone |-> next_milestone(total_user_score(s))]]
    /\ UNCHANGED <<sheet1, users, now, live, params, pc, current_data,
                   user_db_count, session_adds, local, msg, sheet0, users0,
                   calls, overlapped, cap, header, fault>>

(* ------------------------ submit handler (198-230) -------------------- *)
AudioSizes == {MIN_AUDIO_BYTES - 1, MIN_AUDIO_BYTES}

\* the size gate left out: every recording is long enough
TooShortNever(nbytes) == FALSE

\* line 199: the size gate
TooShort(nbytes) == nbytes < MIN_AUDIO_BYTES

\* lines 165-203: a new run of the script with a recording of nbytes; a
\* short one is refused, another one is submitted
Record(s, nbytes) ==
    /\ pc[s] = "idle"
    /\ current_data[s] # None
    /\ session_adds[s] < cap
    /\ IF TooShort(nbytes)
       THEN /\ msg' = [msg EXCEPT ![s] = "too_short"]
            /\ UNCHANGED <<pc, local, overlapped>>
       ELSE /\ pc' = [pc EXCEPT ![s] = "upload"]
            /\ local' = [local EXCEPT ![s].nbytes = nbytes]
            /\ msg' = [msg EXCEPT ![s] = "none"]
            /\ overlapped' = (overlapped \/ OtherInHandler(s))
    /\ UNCHANGED <<sheet1, users, now, live, params, current_data,
                   user_db_count, session_adds, sheet0, users0, calls,
                   cap, header, page, fault>>

\* the ledger update made whatever the upload returned
ProceedAlways(success) == TRUE

\* line 218: `if success:`
Proceed(success) == success

\* a failed upload that still moves on to the next sentence
upload_to_hf_moving_on(s, ok) ==
    /\ pc[s] = "upload"
    /\ IF ok
       THEN /\ pc' = [pc EXCEPT ![s] = "find_s"]
            /\ local' = [local EXCEPT ![s].success = ok]
       ELSE /\ pc' = [pc EXCEPT ![s] = "next"]
            /\ local' = [local EXCEPT ![s] = NoLocal]
    /\ msg' = [msg EXCEPT ![s] = IF ok THEN @ ELSE "upload_failed"]
    /\ UNCHANGED <<sheet1, users, now, live, params, current_data,
                   user_db_count, session_adds, sheet0, users0, calls,
                   overlapped, cap, header, page, fault>>

\* lines 210-218: upload_to_hf returns ok; False is reported and ends the run
upload_to_hf(s, ok) ==
    /\ pc[s] = "upload"
    /\ IF Proceed(ok)
       THEN /\ pc' = [pc EXCEPT ![s] = "find_s"]
            /\ local' = [local EXCEPT ![s].success = ok]
       ELSE /\ pc' = [pc EXCEPT ![s] = "idle"]
            /\ local' = [local EXCEPT ![s] = NoLocal]
    /\ msg' = [msg EXCEPT ![s] = IF ok THEN @ ELSE "upload_failed"]
    /\ UNCHANGED <<sheet1, users, now, live, params, current_data,
                   user_db_count, session_adds, sheet0, users0, calls,
                   overlapped, cap, header, page, fault>>

(* ------------- update_global_and_user_stats (84-106) ------------------ *)
\* an exception leaves update_global_and_user_stats and the script run:
\* the page shows it, session_adds and current_data keep their values
Raise(s) ==
    /\ pc' = [pc EXCEPT ![s] = "idle"]
    /\ msg' = [msg EXCEPT ![s] = "exception"]
    /\ local' = [local EXCEPT ![s] = NoLocal]

\* line 92 put inside the try of lines 99-106: an id that is not found
\* ends in the new-row handler
FindSentenceCaught(s) ==
    /\ pc[s] = "find_s"
    /\ LET r == FindCell(sheet1, current_id(s)) IN
       IF r = 0
       THEN /\ pc' = [pc EXCEPT ![s] = "append_u"]
            /\ UNCHANGED local
       ELSE /\ local' = [local EXCEPT ![s].cell_s = r]
            /\ pc' = [pc EXCEPT ![s] = "read_s"]
    /\ UNCHANGED <<sheet1, users, now, live, params, current_data,
                   user_db_count, session_adds, msg, sheet0, users0, calls,
                   overlapped, cap, header, page, fault>>

\* line 92: cell_s = sheet_data.find(str(global_id)), outside any try
FindSentence(s) ==
    /\ pc[s] = "find_s"
    /\ LET r == FindCell(sheet1, current_id(s)) IN
       IF r = 0
       THEN Raise(s)
       ELSE /\ local' = [local EXCEPT ![s].cell_s = r]
            /\ pc' = [pc EXCEPT ![s] = "read_s"]
            /\ UNCHANGED msg
    /\ UNCHANGED <<sheet1, users, now, live, params, current_data,
                   user_db_count, session_adds, sheet0, users0, calls,
                   overlapped, cap, header, page, fault>>

\* line 94 reading the cell under the heading recording_count instead of
\* column 6
ReadSentenceByName(s) ==
    /\ pc[s] = "read_s"
    /\ LET v == sheet1[local[s].cell_s][Col("recording_count")] IN
       IF ~IsNumeric(v)
       THEN Raise(s)
       ELSE /\ local' = [local EXCEPT ![s].current_s_val = IntOf(v)]
            /\ pc' = [pc EXCEPT ![s] = "write_s"]
            /\ UNCHANGED msg
    /\ UNCHANGED <<sheet1, users, now, live, params, current_data,
                   user_db_count, session_adds, sheet0, users0, calls,
                   overlapped, cap, header, page, fault>>

\* line 94: current_s_val = int(cell(cell_s.row, 6).value)
ReadSentence(s) ==
    /\ pc[s] = "read_s"
    /\ LET v == sheet1[local[s].cell_s][RECORDING_COUNT_COL] IN
       IF ~IsNumeric(v)
       THEN Raise(s)
       ELSE /\ local' = [local EXCEPT ![s].current_s_val = IntOf(v)]
            /\ pc' = [pc EXCEPT ![s] = "write_s"]
            /\ UNCHANGED msg
    /\ UNCHANGED <<sheet1, users, now, live, params, current_data,
                   user_db_count, session_adds, sheet0, users0, calls,
                   overlapped, cap, header, page, fault>>

\* line 95: update_cell(cell_s.row, 6, current_s_val + 1)
WriteSentence(s) ==
    /\ pc[s] = "write_s"
    /\ sheet1' = UpdateCell(sheet1, local[s].cell_s, RECORDING_COUNT_COL,
                            StrOf(local[s].current_s_val + 1))
    /\ calls' = [calls EXCEPT ![current_id(s)] = @ + 1]
    /\ pc' = [pc EXCEPT ![s] = "find_u"]
    /\ UNCHANGED <<users, now, live, params, current_data, user_db_count,
                   session_adds, local, msg, sheet0, users0, overlapped,
                   cap, header, page, fault>>

\* line 100: cell_u = sheet_users.find(user_id); not found is caught
FindUser(s) ==
    /\ pc[s] = "find_u"
    /\ LET r == FindCell(users, user_id(s)) IN
       IF r = 0
       THEN /\ pc' = [pc EXCEPT ![s] = "append_u"]
            /\ UNCHANGED local
       ELSE /\ local' = [local EXCEPT ![s].cell_u = r]
            /\ pc' = [pc EXCEPT ![s] = "read_u"]
    /\ UNCHANGED <<sheet1, users, now, live, params, current_data,
                   user_db_count, session_adds, msg, sheet0, users0, calls,
                   overlapped, cap, header, page, fault>>

\* line 101: current_u_val = int(cell(cell_u.row, 2).value); a ValueError
\* is caught by the same handler
ReadUser(s) ==
    /\ pc[s] = "read_u"
    /\ LET v == users[local[s].cell_u][USER_COUNT_COL] IN
       IF ~IsNumeric(v)
       THEN /\ pc' = [pc EXCEPT ![s] = "append_u"]
            /\ UNCHANGED local
       ELSE /\ local' = [local EXCEPT ![s].current_u_val = IntOf(v)]
            /\ pc' = [pc EXCEPT ![s] = "write_u"]
    /\ UNCHANGED <<sheet1, users, now, live, params, current_data,
                   user_db_count, session_adds, msg, sheet0, users0, calls,
                   overlapped, cap, header, page, fault>>

\* line 102: update_cell(cell_u.row, 2, current_u_val + 1)
WriteUserCount(s) ==
    /\ pc[s] = "write_u"
    /\ users' = UpdateCell(users, local[s].cell_u, USER_COUNT_COL,
                           StrOf(local[s].current_u_val + 1))
    /\ pc' = [pc EXCEPT ![s] = "stamp_u"]
    /\ UNCHANGED <<sheet1, now, live, params, current_data, user_db_count,
                   session_adds, local, msg, sheet0, users0, calls,
                   overlapped, cap, header, page, fault>>

\* line 103: update_cell(cell_u.row, 3, str(datetime.now()))
WriteUserStamp(s) ==
    /\ pc[s] = "stamp_u"
    /\ users' = UpdateCell(users, local[s].cell_u, USER_STAMP_COL, Stamp(now))
    /\ now' = now + 1
    /\ pc' = [pc EXCEPT ![s] = "next"]
    /\ UNCHANGED <<sheet1, live, params, current_data, user_db_count,
                   session_adds, local, msg, sheet0, users0, calls,
                   overlapped, cap, header, page, fault>>

\* line 106: append_row([user_id, 1, str(datetime.now())])
AppendUser(s) ==
    /\ pc[s] = "append_u"
    /\ users' = Append(users, <<user_id(s), StrOf(1), Stamp(now)>>)
    /\ now' = now + 1
    /\ pc' = [pc EXCEPT ![s] = "next"]
    /\ UNCHANGED <<sheet1, live, params, current_data, user_db_count,
                   session_adds, local, msg, sheet0, users0, calls,
                   overlapped, cap, header, page, fault>>

\* lines 223-230: session_adds += 1, the next assignment, rerun (the page
\* is drawn afresh, without a warning or an error).
\* Sheet1 has the row line 92 found, so the selector does not raise here.
LoadNext(s) ==
    /\ pc[s] = "next"
    /\ session_adds' = [session_adds EXCEPT ![s] = @ + 1]
    /\ msg' = [msg EXCEPT ![s] = "none"]
    /\ \E row \in get_next_sentence(sheet1, params[s].region) :
          current_data' = [current_data EXCEPT ![s] = row]
    /\ local' = [local EXCEPT ![s] = NoLocal]
    /\ pc' = [pc EXCEPT ![s] = "idle"]
    /\ UNCHANGED <<sheet1, users, now, live, params, user_db_count,
                   sheet0, users0, calls, overlapped,
                   cap, header, page, fault>>

(* ---------------------- store calls that fail ------------------------- *)
\* a gspread call raises (network, quota, credentials): one more failure,
\* of the call `call` of session s
Failed(s, call) ==
    /\ fault.n < MaxFaults
    /\ fault' = [n |-> fault.n + 1, s |-> s, call |-> call,
                 stats |-> IF call = "stats" THEN fault.stats \cup {s}
                           ELSE fault.stats]

\* lines 33-38 raise inside get_next_sentence, which has no handler: at
\* line 153 the script stops before current_data is set; at line 227 it
\* stops after session_adds += 1 of line 223 and before line 228
SelectFails(s) ==
    /\ pc[s] \in {"new", "next"}
    /\ Failed(s, "select")
    /\ msg' = [msg EXCEPT ![s] = "exception"]
    /\ IF pc[s] = "new"
       THEN UNCHANGED <<pc, local, session_adds>>
       ELSE /\ session_adds' = [session_adds EXCEPT ![s] = @ + 1]
            /\ local' = [local EXCEPT ![s] = NoLocal]
            /\ pc' = [pc EXCEPT ![s] = "idle"]
    /\ UNCHANGED <<sheet1, users, now, live, params, current_data,
                   user_db_count, sheet0, users0, calls, overlapped, cap,
                   header, page>>

\* get_user_stats, lines 70-82: a call that raises is caught by the inner
\* or the outer handler, and both return 0
StatsFails(s) ==
    /\ pc[s] \in {"stats", "stats_read"}
    /\ Failed(s, "stats")
    /\ user_db_count' = [user_db_count EXCEPT ![s] = 0]
    /\ session_adds' = [session_adds EXCEPT ![s] = 0]
    /\ local' = [local EXCEPT ![s] = NoLocal]
    /\ pc' = [pc EXCEPT ![s] = "idle"]
    /\ UNCHANGED <<sheet1, users, now, live, params, current_data, msg,
                   sheet0, users0, calls, overlapped, cap, header, page>>

\* lines 87-95 and 106: a call outside the try, or append_row inside the
\* handler, raises out of update_global_and_user_stats (the cell is not
\* written)
LedgerCallFails(s) ==
    /\ pc[s] \in {"find_s", "read_s", "write_s", "append_u"}
    /\ Failed(s, "ledger")
    /\ Raise(s)
    /\ UNCHANGED <<sheet1, users, now, live, params, current_data,
                   user_db_count, session_adds, sheet0, users0, calls,
                   overlapped, cap, header, page>>

\* lines 99-106: a call of the found-user path raises and the bare except
\* takes it for "user not found"
UserStepFails(s) ==
    /\ pc[s] \in {"find_u", "read_u", "write_u", "stamp_u"}
    /\ Failed(s, "user")
    /\ pc' = [pc EXCEPT ![s] = "append_u"]
    /\ UNCHANGED <<sheet1, users, now, live, params, current_data,
                   user_db_count, session_adds, local, msg, sheet0, users0,
                   calls, overlapped, cap, header, page>>

(* ----------------------------- seeded data ---------------------------- *)
Regions == {"barisal", "Barisal", "sylhet"}
\* 'dev' stands for any label other than the two the selector looks at
Splits == {"test", "train", "dev"}
SentenceIds == {"id1", "id2", "id3", "1", "2", "3"}

\* the sequences of length n over S without a repeated element
Distinct(S, n) ==
    {f \in [1..n -> S] : \A i, j \in 1..n : f[i] = f[j] => i = j}

\* User_Stats before the run: at most one row per user (rows of "T1")
UserSheets(ids, counts, n) ==
    UNION {{[i \in 1..k |-> <<u[i], c[i], Stamp(1)>>] :
               u \in Distinct(ids, k), c \in [1..k -> counts]} : k \in 0..n}

StartPc(on) == [s \in Sessions |-> IF s \in on THEN "new" ELSE "off"]

\* what every run starts from, given the seeded sheets and the sessions
NoFault == [n |-> 0, s |-> "none", call |-> "none", stats |-> {}]

Seed(hdr, sheet, usheet, on, prm, limit) ==
    /\ header = hdr
    /\ page = [s \in Sessions |-> None]
    /\ fault = NoFault
    /\ sheet1 = sheet
    /\ sheet0 = sheet
    /\ users = usheet
    /\ users0 = usheet
    /\ now = 2
    /\ live = on
    /\ params = prm
    /\ msg = [s \in Sessions |-> "none"]
    /\ calls = [i \in SentenceIds |-> 0]
    /\ overlapped = FALSE
    /\ cap = limit

\* the state a run starts from, on the sheet layout the ledger assumes
Start(sheet, usheet, on, prm, limit) ==
    Seed(SHEET1_HEADER, sheet, usheet, on, prm, limit)

\* the sessions `on` have just connected: nothing in st.session_state
Fresh(on) ==
    /\ pc = StartPc(on)
    /\ current_data = [s \in Sessions |-> None]
    /\ local = [s \in Sessions |-> NoLocal]
    /\ user_db_count = [s \in Sessions |-> 0]
    /\ session_adds = [s \in Sessions |-> 0]

(* -------------------- Spec: two concurrent sessions ------------------- *)
\* one or two sentences of the region, nothing recorded yet; the ids are
\* labels or numbers; the second row is a test, train or other-split row
\* of the region or a test row of another region
AppSheets ==
    {<<>>}
    \cup {<<Row("barisal", "id1", "test", "0", tc)>> : tc \in {"1", "2"}}
    \cup {<<Row("barisal", ids[1], "test", "0", "1"),
            Row(second[1], ids[2], second[2], "0", "1")>> :
             ids \in {<<"id1", "id2">>, <<"2", "1">>},
             second \in ({"barisal"} \X Splits) \cup {<<"sylhet", "test">>}}

Init ==
    \E sheet \in AppSheets,
       usheet \in UserSheets({"u1"}, {"1"}, 1),
       u2 \in {"u1", "u2"} :
        /\ Start(sheet, usheet, Sessions,
                 [s \in Sessions |->
                     [region |-> "barisal",
                      user |-> IF s = "s1" THEN "u1" ELSE u2]],
                 MaxAdds)
        /\ Fresh(Sessions)

Next ==
    \/ \E s \in live : LoadAssignment(s)
    \/ \E s \in live : StatsFind(s)
    \/ \E s \in live : StatsRead(s)
    \/ \E s \in live, nbytes \in AudioSizes : Record(s, nbytes)
    \/ \E s \in live, ok \in BOOLEAN : upload_to_hf(s, ok)
    \/ \E s \in live : FindSentence(s)
    \/ \E s \in live : ReadSentence(s)
    \/ \E s \in live : WriteSentence(s)
    \/ \E s \in live : FindUser(s)
    \/ \E s \in live : ReadUser(s)
    \/ \E s \in live : WriteUserCount(s)
    \/ \E s \in live : WriteUserStamp(s)
    \/ \E s \in live : AppendUser(s)
    \/ \E s \in live : LoadNext(s)

Spec == Init /\ [][Next]_vars

(* ------------- SelectorSpec: get_next_sentence on any sheet ----------- *)
\* the id of the i-th seeded row
IdAt(i) == <<"id1", "id2", "id3">>[i]

\* every sheet of up to MaxRows rows: any region, split and counts
SelectorInit ==
    \E k \in 0..MaxRows :
      \E r \in [1..k -> Regions], sp \in [1..k -> Splits],
         rc \in [1..k -> {"0", "1", "2"}], tc \in [1..k -> {"1", "2"}],
         region \in Regions :
        /\ Start([i \in 1..k |-> Row(r[i], IdAt(i), sp[i], rc[i], tc[i])],
                 <<>>, {"s1"},
                 [s \in Sessions |-> [region |-> region, user |-> "u1"]],
                 MaxAdds)
        /\ Fresh({"s1"})

SelectorNext == \E s \in live : LoadAssignment(s)

SelectorSpec == SelectorInit /\ [][SelectorNext]_vars

(* ------- LedgerSpec: one update_global_and_user_stats call alone ------ *)
LedgerIds == {"1", "2", "id1"}

\* the call update_global_and_user_stats(gid, user) of session s1, made
\* after a successful upload, with any id and user as arguments, on a
\* sheet of up to MaxRows sentences with distinct ids, labels or numbers
LedgerInit ==
    \E k \in 0..MaxRows :
      \E ids \in Distinct(LedgerIds, k),
         rc \in [1..k -> {"0", "1"}], tc \in [1..k -> {"1", "2"}],
         usheet \in UserSheets({"u1", "2"}, {"1", "2"}, 2),
         gid \in LedgerIds, user \in {"u1", "2"} :
        /\ Start([i \in 1..k |-> Row("barisal", ids[i], "test", rc[i], tc[i])],
                 usheet, {"s1"},
                 [s \in Sessions |-> [region |-> "barisal", user |-> user]],
                 MaxAdds)
        /\ pc = [StartPc({}) EXCEPT !["s1"] = "find_s"]
        /\ current_data = [s \in Sessions |->
               IF s = "s1" THEN Row("barisal", gid, "test", "0", "1")
               ELSE None]
        /\ local = [s \in Sessions |->
               IF s = "s1"
               THEN [NoLocal EXCEPT !.nbytes = MIN_AUDIO_BYTES,
                                    !.success = TRUE]
               ELSE NoLocal]
          /\ user_db_count = [s \in Sessions |-> 0]
          /\ session_adds = [s \in Sessions |-> 0]

LedgerNext ==
    \/ \E s \in live : FindSentence(s)
    \/ \E s \in live : ReadSentence(s)
    \/ \E s \in live : WriteSentence(s)
    \/ \E s \in live : FindUser(s)
    \/ \E s \in live : ReadUser(s)
    \/ \E s \in live : WriteUserCount(s)
    \/ \E s \in live : WriteUserStamp(s)
    \/ \E s \in live : AppendUser(s)

LedgerSpec == LedgerInit /\ [][LedgerNext]_vars

(* ---- ScenarioSpec: one user, one session, ScenarioSize recordings ---- *)
ScenarioIds == {"id1", "id2", "id3", "1", "2"}

\* ScenarioSize pending test sentences of the region, target_count 1 each,
\* and no other row
ScenarioSheets ==
    {[i \in 1..ScenarioSize |-> Row("barisal", ids[i], "test", "0", "1")] :
        ids \in Distinct(ScenarioIds, ScenarioSize)}

ScenarioInit ==
    \E sheet \in ScenarioSheets,
       usheet \in UserSheets({"u1", "u2"}, {"1"}, 2) :
        /\ Start(sheet, usheet, {"s1"},
                 [s \in Sessions |-> [region |-> "barisal", user |-> "u1"]],
                 ScenarioSize)
        /\ Fresh({"s1"})

\* every recording is long enough and every upload succeeds
ScenarioNext ==
    \/ \E s \in live : LoadAssignment(s)
    \/ \E s \in live : StatsFind(s)
    \/ \E s \in live : StatsRead(s)
    \/ \E s \in live : Record(s, MIN_AUDIO_BYTES)
    \/ \E s \in live : upload_to_hf(s, TRUE)
    \/ \E s \in live : FindSentence(s)
    \/ \E s \in live : ReadSentence(s)
    \/ \E s \in live : WriteSentence(s)
    \/ \E s \in live : FindUser(s)
    \/ \E s \in live : ReadUser(s)
    \/ \E s \in live : WriteUserCount(s)
    \/ \E s \in live : WriteUserStamp(s)
    \/ \E s \in live : AppendUser(s)
    \/ \E s \in live : LoadNext(s)

ScenarioSpec == ScenarioInit /\ [][ScenarioNext]_vars

(* one ledger call on a sheet in either column order *)
LayoutInit ==
    \E hdr \in {SHEET1_HEADER, SCHEMA_HEADER}, k \in 1..MaxRows :
      \E ids \in Distinct(LedgerIds, k),
         rc \in [1..k -> {"0", "1"}], tc \in [1..k -> {"1", "2"}],
         sp \in [1..k -> {"test", "train"}],
         usheet \in UserSheets({"u1"}, {"1", "2"}, 1),
         i0 \in 1..k :
        /\ Seed(hdr,
                [i \in 1..k |->
                    RowIn(hdr, "barisal", ids[i], sp[i], rc[i], tc[i])],
                usheet, {"s1"},
                [s \in Sessions |-> [region |-> "barisal", user |-> "u1"]],
                MaxAdds)
        /\ pc = [StartPc({}) EXCEPT !["s1"] = "find_s"]
        /\ current_data = [s \in Sessions |->
               IF s = "s1"
               THEN RowIn(hdr, "barisal", ids[i0], sp[i0], rc[i0], tc[i0])
               ELSE None]
        /\ local = [s \in Sessions |->
               IF s = "s1"
               THEN [NoLocal EXCEPT !.nbytes = MIN_AUDIO_BYTES,
                                    !.success = TRUE]
               ELSE NoLocal]
        /\ user_db_count = [s \in Sessions |-> 0]
        /\ session_adds = [s \in Sessions |-> 0]

LayoutSpec == LayoutInit /\ [][LedgerNext]_vars

(* the application with store calls that may fail *)
FaultSheets ==
    {<<Row("barisal", "id1", "test", "0", tc)>> : tc \in {"1", "2"}}

FaultInit ==
    \E sheet \in FaultSheets, usheet \in UserSheets({"u1"}, {"1"}, 1),
       u2 \in {"u1", "u2"} :
        /\ Start(sheet, usheet, Sessions,
                 [s \in Sessions |->
                     [region |-> "barisal",
                      user |-> IF s = "s1" THEN "u1" ELSE u2]],
                 MaxAdds)
        /\ Fresh(Sessions)

FaultNext ==
    \/ Next
    \/ \E s \in live : SelectFails(s)
    \/ \E s \in live : StatsFails(s)
    \/ \E s \in live : LedgerCallFails(s)
    \/ \E s \in live : UserStepFails(s)

FaultSpec == FaultInit /\ [][FaultNext]_vars

(* the application when every recording is valid and every upload and   *)
(* store call succeeds; a session whose script can take a step takes it *)
Step(s) ==
    \/ LoadAssignment(s)
    \/ StatsFind(s)
    \/ StatsRead(s)
    \/ Record(s, MIN_AUDIO_BYTES)
    \/ upload_to_hf(s, TRUE)
    \/ FindSentence(s)
    \/ ReadSentence(s)
    \/ WriteSentence(s)
    \/ FindUser(s)
    \/ ReadUser(s)
    \/ WriteUserCount(s)
    \/ WriteUserStamp(s)
    \/ AppendUser(s)
    \/ LoadNext(s)

LiveSpec ==
    /\ Init
    /\ [][ScenarioNext]_vars
    /\ \A s \in Sessions : WF_vars(Step(s))

(* progress bar alone: one session that holds a sentence, any stored count *)
ProgressInit ==
    \E db \in 0..MaxTotal, adds \in 0..MaxAdds :
        /\ Start(<<Row("barisal", "id1", "test", "0", "1")>>, <<>>, {"s1"},
                 [s \in Sessions |-> [region |-> "barisal", user |-> "u1"]],
                 MaxAdds)
        /\ pc = [StartPc({}) EXCEPT !["s1"] = "idle"]
        /\ current_data =
              [s \in Sessions |->
                  IF s = "s1" THEN Row("barisal", "id1", "test", "0", "1")
                  ELSE None]
        /\ local = [s \in Sessions |-> NoLocal]
        /\ user_db_count = [s \in Sessions |-> IF s = "s1" THEN db ELSE 0]
        /\ session_adds = [s \in Sessions |-> IF s = "s1" THEN adds ELSE 0]

ProgressNext == \E s \in live : Render(s)

ProgressSpec == ProgressInit /\ [][ProgressNext]_vars

(* ============================ properties ============================== *)
\* the cells of a sentence row, by schema name
IdOf(row) == row[Col("global_id")]
CountOf(row) == IntOf(row[Col("recording_count")])
TargetOf(row) == IntOf(row[Col("target_count")])

\* every id of the sheet is a label: no count cell can ever hold its text
LabelIds(sheet) == \A r \in 1..Len(sheet) : ~IsNumeric(IdOf(sheet[r]))

\* the rows of a region that still need recordings
PendingRows(sheet, region) ==
    {r \in 1..Len(sheet) :
        sheet[r][Col("region")] = region /\ CountOf(sheet[r]) < TargetOf(sheet[r])}

\* the count a reader of User_Stats gets for a user: 0 without a row
PersistedCount(usheet, u) ==
    IF FindCell(usheet, u) = 0 THEN 0
    ELSE IntOf(usheet[FindCell(usheet, u)][USER_COUNT_COL])

\* completed submissions of the sessions of user u
Recorded(u) ==
    LET of == {s \in live : params[s].user = u}
        RECURSIVE Sum(_)
        Sum(S) == IF S = {} THEN 0
                  ELSE LET x == CHOOSE x \in S : TRUE
                       IN session_adds[x] + Sum(S \ {x})
    IN Sum(of)

(* C1: after a serialized sequence of successful submissions (no two      *)
(* submit handlers ever ran at the same time), every sentence has         *)
(* recording_count <= target_count, given that it held when seeded.       *)
(* The claim on the sheets whose ids are labels, where find resolves      *)
(* every id to its own row.                                               *)
C1_QuotaRespected ==
    (/\ ~overlapped
     /\ LabelIds(sheet0)
     /\ \A r \in 1..Len(sheet0) : CountOf(sheet0[r]) <= TargetOf(sheet0[r]))
    => \A r \in 1..Len(sheet1) : CountOf(sheet1[r]) <= TargetOf(sheet1[r])

(* C2: no lost update on the sentence counter: once every ledger call has *)
(* finished its sentence write, each sentence's recording_count is its    *)
(* seeded value plus the number of calls made with its id.  Stated for    *)
(* sheets whose ids are labels.                                           *)
C2_NoLostSentenceUpdate ==
    (/\ LabelIds(sheet0)
     /\ \A s \in live : pc[s] \notin {"find_s", "read_s", "write_s"})
    => \A r \in 1..Len(sheet1) :
          CountOf(sheet1[r]) = CountOf(sheet0[r]) + calls[IdOf(sheet1[r])]

(* C3: whenever no session of a user is inside a submit handler, the      *)
(* user's persisted count is its count before the run (0 without a row)   *)
(* plus the number of submissions the user's sessions have completed.     *)
C3_UserCountIsBaselinePlusN ==
    \A u \in {params[s].user : s \in live} :
        (\A s \in live : params[s].user = u => pc[s] \notin HandlerPcs)
        => PersistedCount(users, u) = PersistedCount(users0, u) + Recorded(u)

(* C4: upload before ledger: every step that writes Sheet1 or User_Stats  *)
(* is a step of a session inside update_global_and_user_stats whose       *)
(* upload of this very submission has returned True.                      *)
C4_UploadBeforeLedger ==
    [][(sheet1' # sheet1 \/ users' # users)
        => \E s \in live : /\ pc[s] \in LedgerPcs
                           /\ pc'[s] # pc[s]
                           /\ local[s].success
                           /\ ~TooShort(local[s].nbytes)]_vars

C4_Witness ==
    \E s \in live : pc[s] = "find_u" /\ local[s].success /\ sheet1 # sheet0

(* C5: a failed upload has no effect: the step on which upload_to_hf      *)
(* returns False ends the handler and leaves Sheet1, User_Stats, every    *)
(* session_adds and every current assignment as they were, so the rows    *)
(* pending for the region and the selector's results are the same.        *)
C5_FailedUploadHasNoEffect ==
    [][\A s \in live :
          (pc[s] = "upload" /\ msg'[s] = "upload_failed")
          => /\ pc'[s] = "idle"
             /\ sheet1' = sheet1
             /\ users' = users
             /\ session_adds' = session_adds
             /\ current_data' = current_data
             /\ PendingRows(sheet1', params[s].region)
                   = PendingRows(sheet1, params[s].region)
             /\ get_next_sentence(sheet1', params[s].region)
                   = get_next_sentence(sheet1, params[s].region)]_vars

C5_Witness ==
    \E s \in live :
        /\ pc[s] = "idle"
        /\ msg[s] = "upload_failed"
        /\ current_data[s] # None
        /\ \E r \in PendingRows(sheet1, params[s].region) :
              IdOf(sheet1[r]) = current_id(s)

\* session s receives a result of get_next_sentence on this step
Assigned(s) ==
    \/ pc[s] = "new" /\ pc'[s] = "stats"
    \/ pc[s] = "next" /\ pc'[s] = "idle"

\* the snapshot holds a row of the region and split with count < target
HasPending(sheet, region, split) ==
    \E r \in 1..Len(sheet) :
        /\ sheet[r][Col("region")] = region
        /\ sheet[r][Col("split")] = split
        /\ CountOf(sheet[r]) < TargetOf(sheet[r])

(* C6: split priority: whenever the snapshot get_next_sentence reads has  *)
(* a pending 'test' row of the requested region, the row it returns has   *)
(* split 'test'.                                                          *)
C6_TestBeforeTrain ==
    [][\A s \in live :
          (Assigned(s) /\ HasPending(sheet1, params[s].region, "test"))
          => /\ current_data'[s] # None
             /\ current_data'[s][Col("split")] = "test"]_vars

C6_Witness ==
    \E s \in live :
        /\ pc[s] = "stats"
        /\ current_data[s] # None
        /\ current_data[s][Col("split")] = "test"
        /\ HasPending(sheet1, params[s].region, "train")

(* C7: get_next_sentence(region) returns None exactly when no row of the  *)
(* region in the snapshot has recording_count < target_count.  Stated for *)
(* sheets whose splits are all 'test' or 'train'; the empty sheet is one. *)
C7_NoneIffNothingPending ==
    [][\A s \in live :
          (/\ pc[s] = "new"
           /\ <<pc[s], msg[s]>>' # <<pc[s], msg[s]>>
           /\ \A r \in 1..Len(sheet1) :
                 sheet1[r][Col("split")] \in {"test", "train"})
          => ((pc'[s] = "stats" /\ current_data'[s] = None)
                <=> PendingRows(sheet1, params[s].region) = {})]_vars

\* the row of the sheet whose id field is the id, 0 without one
RowOfId(sheet, id) ==
    IF \E r \in 1..Len(sheet) : IdOf(sheet[r]) = id
    THEN CHOOSE r \in 1..Len(sheet) : IdOf(sheet[r]) = id
    ELSE 0

\* the row of User_Stats whose user_id field is the user, 0 without one
RowOfUser(usheet, u) ==
    IF \E r \in 1..Len(usheet) : usheet[r][1] = u
    THEN CHOOSE r \in 1..Len(usheet) : usheet[r][1] = u
    ELSE 0

C9_SingleUpdateAddsOne ==
    \A s \in live :
        (pc[s] = "next" /\ RowOfId(sheet0, current_id(s)) # 0)
        => LET r == RowOfId(sheet0, current_id(s))
               k == RowOfUser(users0, user_id(s))
           IN /\ CountOf(sheet1[r]) = CountOf(sheet0[r]) + 1
              /\ IF k # 0
                 THEN /\ Len(users) = Len(users0)
                      /\ IntOf(users[k][USER_COUNT_COL])
                            = IntOf(users0[k][USER_COUNT_COL]) + 1
                      /\ users[k][USER_STAMP_COL] = Stamp(now - 1)
                 ELSE users = Append(users0,
                                     <<user_id(s), "1", Stamp(now - 1)>>)

(* C10: the end-to-end scenario: after ScenarioSize accepted recordings   *)
(* of the one session, every sentence has recording_count 1, the user's   *)
(* persisted count has risen by ScenarioSize, and the region is complete: *)
(* the session's assignment and the next get_next_sentence are None.      *)
C10_ScenarioCompletes ==
    \A s \in live :
        (session_adds[s] = ScenarioSize /\ pc[s] = "idle")
        => /\ \A r \in 1..Len(sheet1) : CountOf(sheet1[r]) = 1
           /\ PersistedCount(users, user_id(s))
                 = PersistedCount(users0, user_id(s)) + ScenarioSize
           /\ current_data[s] = None
           /\ get_next_sentence(sheet1, params[s].region) = {None}
\* C11: the bar drawn for a total t >= 0 shows milestone 100 * (t div 100 + 1)
\* and t mod 100 hundredths, but 100 hundredths when t > 0 is a multiple of
\* 100; so 0 draws (0, 100), 100 draws (100, 200), 150 draws (50, 200), the
\* bar never exceeds 100 hundredths and the milestone is above the total.
C11_ProgressComputation ==
    \A s \in live :
        page[s] # None =>
            LET t == page[s].total
                percent == page[s].percent
                milestone == page[s].milestone
            IN /\ t = user_db_count[s] + session_adds[s]
               /\ t >= 0
               /\ milestone = 100 * ((t \div 100) + 1)
               /\ percent = IF t > 0 /\ t % 100 = 0 THEN 100 ELSE t % 100
               /\ (t = 0 => percent = 0 /\ milestone = 100)
               /\ (t = 100 => percent = 100 /\ milestone = 200)
               /\ (t = 150 => percent = 50 /\ milestone = 200)
               /\ percent <= 100
               /\ milestone > t

\* a bar was drawn for a total on a milestone
C11_Witness ==
    \E s \in live : page[s] # None /\ page[s].total = 100

\* C12: a recording of fewer than 5000 bytes never enters the upload / ledger
\* pipeline: whoever is in the handler holds at least 5000 bytes, and the
\* step that refuses a short recording leaves both worksheets, session_adds,
\* the assignments and every session's position as they were.
C12_SizeGate ==
    [][\A s \in live :
          /\ pc'[s] \in HandlerPcs => local'[s].nbytes >= 5000
          /\ (msg'[s] = "too_short" /\ msg[s] # "too_short") =>
                UNCHANGED <<sheet1, users, session_adds, current_data, pc>>
      ]_vars

\* a short recording was refused
C12_Witness ==
    \E s \in live : msg[s] = "too_short" /\ pc[s] = "idle"

\* C13: a store call that fails during selection or during the stats read
\* gives the session a result it can tell from "region complete" and from
\* "new user": a failed selection does not hand out None as an assignment,
\* and a failed stats read does not store the count 0 without an error.
C13_FailureIsDistinct ==
    [][fault'.n # fault.n =>
          LET s == fault'.s IN
          /\ fault'.call = "select" =>
                \/ msg'[s] = "exception"
                \/ current_data'[s] # None /\ current_data'[s] # current_data[s]
          /\ fault'.call = "stats" =>
                \/ msg'[s] = "exception"
                \/ user_db_count'[s] # 0
      ]_vars

\* C14: a record get_next_sentence(region) returns is a row of the snapshot
\* whose region is exactly the requested one (case-sensitive) and whose
\* recording_count is below its target_count; and every such row of the
\* chosen split ('test' if one is pending, else 'train') can be returned.
C14_SelectionSoundAndFair ==
    /\ [][\A s \in live :
            (Assigned(s) /\ current_data'[s] # None) =>
                \E i \in 1..Len(sheet1) :
                    /\ sheet1[i] = current_data'[s]
                    /\ sheet1[i][Col("region")] = params[s].region
                    /\ CountOf(sheet1[i]) < TargetOf(sheet1[i])]_vars
    /\ [](\A s \in live :
            pc[s] = "new" =>
                LET region == params[s].region
                    chosen == IF HasPending(sheet1, region, "test")
                              THEN "test" ELSE "train"
                IN \A i \in 1..Len(sheet1) :
                      (/\ sheet1[i][Col("region")] = region
                       /\ sheet1[i][Col("split")] = chosen
                       /\ CountOf(sheet1[i]) < TargetOf(sheet1[i]))
                      => sheet1[i] \in get_next_sentence(sheet1, region))

\* 'barisal' was requested and the row returned is the second one; the
\* first row is pending too, in the region 'Barisal'
C14_Witness ==
    \E s \in live :
        /\ pc[s] = "stats"
        /\ params[s].region = "barisal"
        /\ Len(sheet1) = 2
        /\ current_data[s] = sheet1[2]
        /\ sheet1[1][Col("region")] = "Barisal"
        /\ CountOf(sheet1[1]) < TargetOf(sheet1[1])

\* C15 as stated: on a sheet whose columns are ordered (region,
\* sentence_text, id, recording_count, target_count, split, dataset_source)
\* the cell update_global_and_user_stats reads and rewrites in the resolved
\* row is the recording_count cell, and the user cells it rewrites are
\* count (2) and last_active (3).
C15_SchemaOrderAddressed ==
    \A s \in live :
        (header = SCHEMA_HEADER /\ pc[s] \in {"read_s", "write_s"}) =>
            /\ RECORDING_COUNT_COL = Col("recording_count")
            /\ USER_COUNT_COL = 2
            /\ USER_STAMP_COL = 3

\* C15 amended: the cell read and rewritten in the resolved sentence row is
\* column 6 (F).  That is the recording_count cell on a sheet whose sixth
\* column is recording_count; on a sheet in the order (region,
\* sentence_text, id, recording_count, target_count, split, dataset_source)
\* it is the split cell, the call raises at the read and writes nothing.
\* In User_Stats the call rewrites column 2 (count) and column 3
\* (last_active) of the resolved row, or appends a row of three cells.
C15_ColumnSixAddressed ==
    /\ [][\A s \in live :
            /\ sheet1' # sheet1 =>
                  /\ pc[s] = "write_s"
                  /\ header[6] = "recording_count"
                  /\ Len(sheet1') = Len(sheet1)
                  /\ \A r \in 1..Len(sheet1) : \A c \in 1..Len(sheet1[r]) :
                        sheet1'[r][c] # sheet1[r][c] =>
                            /\ r = local[s].cell_s
                            /\ c = 6
                            /\ header[c] = "recording_count"
            /\ users' # users =>
                  \/ /\ Len(users') = Len(users)
                     /\ \A r \in 1..Len(users) : \A c \in 1..Len(users[r]) :
                           users'[r][c] # users[r][c] =>
                               /\ r = local[s].cell_u
                               /\ \/ c = 2 /\ pc[s] = "write_u"
                                  \/ c = 3 /\ pc[s] = "stamp_u"
                  \/ /\ pc[s] = "append_u"
                     /\ Len(users') = Len(users) + 1
                     /\ Len(users'[Len(users')]) = 3
                     /\ SubSeq(users', 1, Len(users)) = users]_vars
    /\ [](header = SCHEMA_HEADER =>
            /\ sheet1 = sheet0 /\ users = users0
            /\ \A s \in live : pc[s] \in {"find_s", "read_s", "idle"})

\* on a sheet in the schema order the id was resolved and the call raised
C15_Witness ==
    /\ header = SCHEMA_HEADER
    /\ FindCell(sheet1, current_id("s1")) # 0
    /\ pc["s1"] = "idle"
    /\ msg["s1"] = "exception"

\* C16: update_global_and_user_stats(id, user) resolves the sentence row by
\* the id field and the stats row by the user_id field only, never by a
\* cell of another column or record that holds the same text, and leaves
\* every record with another id and every row of another user unchanged.
\* Stated for the calls whose id is the id of a record of the sheet.
C16_LedgerFrame ==
    \A s \in live :
      RowOfId(sheet0, current_id(s)) # 0 =>
        /\ pc[s] \in {"read_s", "write_s"} =>
              local[s].cell_s = RowOfId(sheet1, current_id(s))
        /\ pc[s] \in {"read_u", "write_u", "stamp_u"} =>
              local[s].cell_u = RowOfUser(users, user_id(s))
        /\ \A r \in 1..Len(sheet0) :
              IdOf(sheet0[r]) # current_id(s) => sheet1[r] = sheet0[r]
        /\ \A r \in 1..Len(users0) :
              users0[r][1] # user_id(s) => users[r] = users0[r]
        /\ \A r \in (Len(users0) + 1)..Len(users) :
              users[r][1] = user_id(s)

\* C17: in every reachable state User_Stats holds at most one row per
\* user_id, whatever the interleaving of the submissions and also when a
\* call of the found-user path fails and the catch-all handler runs.
C17_OneRowPerUser ==
    \A i, j \in 1..Len(users) : users[i][1] = users[j][1] => i = j

\* C18: the recording_count of every sentence never decreases from one
\* state to the next, under any interleaving of the sessions' calls.
C18_CountNeverDecreases ==
    [][\A r \in 1..Len(sheet1) :
          CountOf(sheet1'[r]) >= CountOf(sheet1[r])]_vars

\* C19: session_adds starts at 0 and rises by exactly 1 per submission whose
\* upload and ledger update both succeeded, and by 0 otherwise; so for a
\* user with exactly one session whose initial stats read succeeded,
\* user_db_count + session_adds equals the user's persisted count whenever
\* no submission of the session is in progress.
C19_SessionCacheConsistent ==
    /\ [][\A s \in live :
            /\ (pc[s] \in {"stats", "stats_read"} /\ pc'[s] = "idle")
                  => session_adds'[s] = 0
            /\ (pc[s] = "next" /\ pc'[s] # "next")
                  => session_adds'[s] = session_adds[s] + 1
            /\ (pc[s] \in HandlerPcs \ {"next"} \/ pc[s] = "idle")
                  => session_adds'[s] = session_adds[s]]_vars
    /\ [](\A s \in live :
            (/\ pc[s] = "idle"
             /\ s \notin fault.stats
             /\ \A t \in live \ {s} : user_id(t) # user_id(s))
            => user_db_count[s] + session_adds[s]
                  = PersistedCount(users, user_id(s)))

\* every session shows "region complete" and get_next_sentence returns None
RegionDone ==
    \A s \in live :
        /\ pc[s] = "idle"
        /\ current_data[s] = None
        /\ ~SelectorRaises(sheet1)
        /\ get_next_sentence(sheet1, params[s].region) = {None}

\* a session has made all the submissions a run of the model allows
CapReached == \E s \in live : session_adds[s] >= cap

\* C20: when the sessions keep submitting valid recordings and every upload
\* and store call succeeds, the region eventually reaches the state where
\* get_next_sentence returns None and every session's assignment is None
\* (in the model: unless a session runs into the bound on its submissions).
C20_RegionCompletes == <>(RegionDone \/ CapReached)

=============================================================================
